---- MODULE Spec2Model ----
(***************************************************************************)
(* pyhessio: the HessioFile handle, the open_hessio context manager, the   *)
(* module-level close_file, the two advance forms (fill_next_* and the     *)
(* move_to_next_* generators) and the accessors, over the single stream    *)
(* that the pyhessioc library holds.                                       *)
(***************************************************************************)
EXTENDS Integers, Sequences, FiniteSets, TLC

VARIABLES
    file,             \* content of the data file on disk: a sequence of blocks
    file_is_opened,   \* library: a stream is open
    pos,              \* library: index of the next block of the stream
    hsdata,           \* library: "NULL", or "set" once the run header was read
    event,            \* library: the current event (hsdata->event, ->mc_event)
    opened_filename,  \* HessioFile.__opened_filename, per handle
    ctx,              \* per handle: "none" | "in" (inside the with block) | "out"
    iters,            \* the generator objects made by move_to_next_(mc_)event
    session,          \* "never" | "open" | "eof" (an advance reported the end of the
                      \* open stream) | "closed" (an open stream was closed)
    last              \* the last call: its name, arguments and outcome

vars == <<file, file_is_opened, pos, hsdata, event, opened_filename, ctx,
          iters, session, last>>

libvars == <<file_is_opened, pos, hsdata, event>>

-----------------------------------------------------------------------------
(* Bounds of the model *)
MaxShowers == 2
MaxLimit == 2
MaxYield == 3
MaxTrace == 3

(* Program constants *)
TEL_INDEX_NOT_VALID == -2
PIXEL_INDEX_NOT_VALID == -3

Handles == {1, 2}
Iters == {1, 2}
None == "None"
DataFile == "gamma_test.simtel.gz"
MissingFile == "no_such_file.simtel.gz"
Filenames == {DataFile, MissingFile}

(* The fixture: run 31964, telescopes 1, 38 and 47 configured *)
RunNumber == 31964
TelescopeIds == <<1, 38, 47>>
ConfTels == {TelescopeIds[i] : i \in 1..Len(TelescopeIds)}
QueryTels == {-1, 1, 38, 47, 4000}
QueryChannels == {0, 1, 2}
ShowerKinds == {{}, {38}, {38, 47}}

NumPixels(tel) == IF tel = 1 THEN 1 ELSE 2
NumGains(tel) == IF tel = 38 THEN 2 ELSE 1
NumSamples(tel) == IF tel = 38 THEN 2 ELSE 0
NumTimesTypes(tel) == IF tel = 47 THEN 7 ELSE 1
LRefShape(tel) == IF tel = 1 THEN 0 ELSE 2
\* Camera rotation angle [rad] and focal length [m] of the configured telescopes
CamRot(tel) == IF tel = 47 THEN 0 ELSE IF tel = 38 THEN -2 ELSE -1
OpticalFoclen(tel) == IF tel = 47 THEN 2 ELSE 28

EventId(i) == 100 * i

(* The blocks of a stream of showers: every shower has its Monte-Carlo     *)
(* block, a triggered one is followed by its data block.                   *)
RECURSIVE Blocks(_, _)
Blocks(showers, i) ==
    IF i > Len(showers) THEN <<>>
    ELSE LET mc == [type |-> "mc", id |-> EventId(i), tels |-> {}]
             data == [type |-> "data", id |-> EventId(i), tels |-> showers[i]]
         IN  (IF showers[i] = {} THEN <<mc>> ELSE <<mc, data>>)
             \o Blocks(showers, i + 1)

Streams == {Blocks(s, 1) : s \in UNION {[1..n -> ShowerKinds] : n \in 0..MaxShowers}}

NoEvent == [glob_count |-> -1, teldata |-> {}, mc_event |-> -1]

-----------------------------------------------------------------------------
(* The pyhessioc library *)

\* One block decoded into the current event.
Decode(ev, b) ==
    IF b.type = "mc"
    THEN [ev EXCEPT !.mc_event = b.id]
    ELSE [ev EXCEPT !.glob_count = b.id, !.teldata = b.tels]

\* Read blocks from p until one of type target was decoded or the stream ends.
RECURSIVE ReadUntil(_, _, _, _)
ReadUntil(p, ev, target, n) ==
    IF p > Len(file)
    THEN [rc |-> -1, id |-> -1, pos |-> p, event |-> ev, blocks |-> n]
    ELSE LET ev2 == Decode(ev, file[p])
         IN  IF file[p].type = target
             THEN [rc |-> RunNumber, id |-> file[p].id, pos |-> p + 1,
                   event |-> ev2, blocks |-> n + 1]
             ELSE ReadUntil(p + 1, ev2, target, n + 1)

\* lib.move_to_next_event / lib.move_to_next_mc_event: the return code, the
\* event id written to the out-parameter, and the library state afterwards.
lib_move_to_next(target) ==
    IF ~file_is_opened
    THEN [rc |-> -1, id |-> 0, pos |-> pos, event |-> event, blocks |-> 0,
          hsdata |-> hsdata]
    ELSE LET r == ReadUntil(pos, event, target, 0)
         IN  [rc |-> r.rc, id |-> IF r.rc = -1 THEN 0 ELSE r.id, pos |-> r.pos,
              event |-> r.event, blocks |-> r.blocks, hsdata |-> "set"]

\* lib.file_open: 0, -1 (cannot open) or -2 (a file is already open).
lib_file_open(filename) ==
    IF file_is_opened THEN -2
    ELSE IF filename # DataFile THEN -1
    ELSE 0

\* lib.close_file: the stream is released, hsdata is freed.
lib_closed == [file_is_opened |-> FALSE, pos |-> 1, hsdata |-> "NULL",
               event |-> NoEvent]

-----------------------------------------------------------------------------
(* The library's accessors: a status or a value, from hsdata *)

\* -1 without hsdata, TEL_INDEX_NOT_VALID for an id that is not configured.
tel_status(tel) ==
    IF hsdata = "NULL" THEN -1
    ELSE IF tel \notin ConfTels THEN TEL_INDEX_NOT_VALID
    ELSE 0

\* As tel_status, and -1 for a telescope without data in the current event.
teldata_status(tel) ==
    IF tel_status(tel) # 0 THEN tel_status(tel)
    ELSE IF tel \notin event.teldata THEN -1
    ELSE 0

XCore(id) == id + 1
AdcValue == event.glob_count

lib_get_run_number == IF hsdata = "NULL" THEN -1 ELSE RunNumber
lib_get_global_event_count == IF hsdata = "NULL" THEN -1 ELSE event.glob_count
lib_get_mc_event_xcore ==
    IF hsdata = "NULL" \/ event.mc_event = -1 THEN 0 ELSE XCore(event.mc_event)
lib_get_num_telescope == IF hsdata = "NULL" THEN -1 ELSE Len(TelescopeIds)
lib_get_num_teldata == IF hsdata = "NULL" THEN -1 ELSE Cardinality(event.teldata)
lib_get_telescope_ids == IF hsdata = "NULL" THEN <<>> ELSE TelescopeIds
\* The ids of the telescopes with data, in the order of the configuration.
InTeldata(tel) == tel \in event.teldata
lib_get_telescope_with_data_list == SelectSeq(TelescopeIds, InTeldata)
lib_get_num_tel_trig == IF hsdata = "NULL" THEN -1 ELSE Cardinality(event.teldata)
lib_get_num_pixels(tel) ==
    IF tel_status(tel) # 0 THEN tel_status(tel) ELSE NumPixels(tel)
lib_get_num_channel(tel) ==
    IF tel_status(tel) # 0 THEN tel_status(tel) ELSE NumGains(tel)
lib_get_event_num_samples(tel) ==
    IF teldata_status(tel) # 0 THEN teldata_status(tel) ELSE NumSamples(tel)
lib_get_adc_sample(tel, chan) == teldata_status(tel)
lib_get_adc_sum(tel, chan) == teldata_status(tel)
lib_get_significant(tel) == teldata_status(tel)
lib_get_pixel_timing_timval(tel) == teldata_status(tel)
lib_get_tel_event_gps_time(tel) == teldata_status(tel)
\* A configured telescope without data in the event has no timing types: 0.
lib_get_pixel_timing_num_times_types(tel) ==
    IF tel_status(tel) # 0 THEN tel_status(tel)
    ELSE IF tel \notin event.teldata THEN 0
    ELSE NumTimesTypes(tel)
lib_get_nrefshape(tel) ==
    IF tel_status(tel) # 0 THEN tel_status(tel) ELSE NumGains(tel)
lib_get_lrefshape(tel) ==
    IF tel_status(tel) # 0 THEN tel_status(tel) ELSE LRefShape(tel)
\* The stored value, or -1 / TEL_INDEX_NOT_VALID in its place.
lib_get_camera_rotation_angle(tel) ==
    IF tel_status(tel) # 0 THEN tel_status(tel) ELSE CamRot(tel)
lib_get_optical_foclen(tel) ==
    IF tel_status(tel) # 0 THEN tel_status(tel) ELSE OpticalFoclen(tel)
\* "If telescope_id is not valid return 0."
lib_get_azimuth_raw(tel) == IF tel_status(tel) # 0 THEN 0 ELSE tel
\* No bit is known of a channel that the telescope does not have.
lib_get_adc_known(tel, chan, pix) ==
    IF teldata_status(tel) # 0 THEN teldata_status(tel)
    ELSE IF chan \notin 0..(NumGains(tel) - 1) THEN 0
    ELSE 3

-----------------------------------------------------------------------------
(* The accessors of HessioFile: what each returns or raises *)

Ret(v) == [exc |-> "none", val |-> v]
Raise(e) == [exc |-> e, val |-> <<>>]
Filled(n, v) == [k \in 1..n |-> v]

\* As by_status, with every result but TEL_INDEX_NOT_VALID taken as success.
by_status_lenient(result, v) ==
    IF result = TEL_INDEX_NOT_VALID THEN [exc |-> "HessioTelescopeIndexError", val |-> <<>>]
    ELSE [exc |-> "none", val |-> v]

\* The common ending: result 0 returns, TEL_INDEX_NOT_VALID and the rest raise.
by_status(result, v) ==
    IF result = 0 THEN Ret(v)
    ELSE IF result = TEL_INDEX_NOT_VALID THEN Raise("HessioTelescopeIndexError")
    ELSE Raise("HessioGeneralError")

\* As by_count, with every negative result taken as TEL_INDEX_NOT_VALID.
by_count_index_error(result) ==
    IF result >= 0 THEN [exc |-> "none", val |-> <<result>>]
    ELSE [exc |-> "HessioTelescopeIndexError", val |-> <<>>]

\* As by_count, without the branch for TEL_INDEX_NOT_VALID.
by_count_general(result) ==
    IF result >= 0 THEN [exc |-> "none", val |-> <<result>>]
    ELSE [exc |-> "HessioGeneralError", val |-> <<>>]

\* The common ending of the counting accessors: a result >= 0 is the value.
by_count(result) ==
    IF result >= 0 THEN Ret(<<result>>)
    ELSE IF result = TEL_INDEX_NOT_VALID THEN Raise("HessioTelescopeIndexError")
    ELSE Raise("HessioGeneralError")

\* get_event_id returns the attribute _event_id, which no method of the class
\* assigns: the attribute lookup fails.
get_event_id == Raise("AttributeError")

get_global_event_count == Ret(<<lib_get_global_event_count>>)

\* As get_run_number, returning the library's value unchecked.
get_run_number_unchecked == [exc |-> "none", val |-> <<lib_get_run_number>>]

get_run_number ==
    IF lib_get_run_number > 0 THEN Ret(<<lib_get_run_number>>)
    ELSE Raise("HessioGeneralError")

get_num_telescope ==
    IF lib_get_num_telescope > 0 THEN Ret(<<lib_get_num_telescope>>)
    ELSE Raise("HessioGeneralError")

get_num_tel_trig ==
    IF lib_get_num_tel_trig > 0 THEN Ret(<<lib_get_num_tel_trig>>)
    ELSE Raise("HessioGeneralError")

\* As get_num_teldata, with a count of 0 taken as not available.
get_num_teldata_positive ==
    IF lib_get_num_teldata > 0 THEN [exc |-> "none", val |-> <<lib_get_num_teldata>>]
    ELSE [exc |-> "HessioGeneralError", val |-> <<>>]

get_num_teldata ==
    IF lib_get_num_teldata >= 0 THEN Ret(<<lib_get_num_teldata>>)
    ELSE Raise("HessioGeneralError")

\* As get_telescope_ids, listing the telescopes with data in the event.
get_telescope_ids_with_data ==
    IF get_num_telescope.exc # "none" THEN get_num_telescope
    ELSE [exc |-> "none", val |-> lib_get_telescope_with_data_list]

get_telescope_ids ==
    IF get_num_telescope.exc # "none" THEN get_num_telescope
    ELSE Ret(lib_get_telescope_ids)

get_teldata_list ==
    IF get_num_teldata.exc # "none" THEN get_num_teldata
    ELSE Ret(lib_get_telescope_with_data_list)

get_mc_event_xcore == Ret(<<lib_get_mc_event_xcore>>)

get_num_channel(tel) == by_count(lib_get_num_channel(tel))

get_num_pixels(tel) == by_count(lib_get_num_pixels(tel))

get_event_num_samples(tel) == by_count(lib_get_event_num_samples(tel))

get_pixel_timing_num_times_types(tel) ==
    by_count(lib_get_pixel_timing_num_times_types(tel))

get_significant(tel) ==
    IF get_num_pixels(tel).exc # "none" THEN get_num_pixels(tel)
    ELSE by_status(lib_get_significant(tel),
                   Filled(get_num_pixels(tel).val[1], 1))

\* The first channel whose library call fails decides what is raised.
RECURSIVE per_channel(_, _, _, _)
per_channel(status, chan, n_chan, data) ==
    IF chan >= n_chan THEN Ret(data)
    ELSE IF status[chan] = 0 THEN per_channel(status, chan + 1, n_chan, data)
    ELSE by_status(status[chan], data)

\* As get_adc_sample, with a sample count of 0 taken as not available.
get_adc_sample_zero_raises(tel) ==
    LET n_chan == get_num_channel(tel)
        n_pix == get_num_pixels(tel)
        n_samples == get_event_num_samples(tel)
        status == [chan \in 0..(n_chan.val[1] - 1) |-> lib_get_adc_sample(tel, chan)]
    IN  IF n_chan.exc # "none" THEN n_chan
        ELSE IF n_pix.exc # "none" THEN n_pix
        ELSE IF n_samples.exc # "none" THEN n_samples
        ELSE IF ~(n_samples.val[1] > 0)
        THEN [exc |-> "HessioGeneralError", val |-> <<>>]
        ELSE per_channel(status, 0, n_chan.val[1],
                 Filled(n_chan.val[1] * n_pix.val[1] * n_samples.val[1], AdcValue))

get_adc_sample(tel) ==
    LET n_chan == get_num_channel(tel)
        n_pix == get_num_pixels(tel)
        n_samples == get_event_num_samples(tel)
        status == [chan \in 0..(n_chan.val[1] - 1) |-> lib_get_adc_sample(tel, chan)]
    IN  IF n_chan.exc # "none" THEN n_chan
        ELSE IF n_pix.exc # "none" THEN n_pix
        ELSE IF n_samples.exc # "none" THEN n_samples
        ELSE IF ~(n_samples.val[1] > 0) THEN Ret(<<>>)
        ELSE per_channel(status, 0, n_chan.val[1],
                 Filled(n_chan.val[1] * n_pix.val[1] * n_samples.val[1], AdcValue))

get_adc_sum(tel) ==
    LET n_chan == get_num_channel(tel)
        n_pix == get_num_pixels(tel)
        status == [chan \in 0..(n_chan.val[1] - 1) |-> lib_get_adc_sum(tel, chan)]
    IN  IF n_chan.exc # "none" THEN n_chan
        ELSE IF n_pix.exc # "none" THEN n_pix
        ELSE per_channel(status, 0, n_chan.val[1],
                 Filled(n_chan.val[1] * n_pix.val[1], AdcValue))

get_pixel_timing_timval(tel) ==
    LET npix == get_num_pixels(tel)
        ntimes == get_pixel_timing_num_times_types(tel)
    IN  IF npix.exc # "none" THEN npix
        ELSE IF ntimes.exc # "none" THEN ntimes
        ELSE by_status(lib_get_pixel_timing_timval(tel),
                       Filled(npix.val[1] * ntimes.val[1], AdcValue))

get_azimuth_raw(tel) == Ret(<<lib_get_azimuth_raw(tel)>>)

get_adc_known(tel, chan, pix) == Ret(<<lib_get_adc_known(tel, chan, pix)>>)

get_ref_shapes(tel) ==
    LET n_chan == lib_get_nrefshape(tel)
        n_samples == lib_get_lrefshape(tel)
    IN  IF ~(n_samples > 0) THEN Raise("HessioGeneralError")
        ELSE IF n_chan < 0 THEN Raise("ValueError")
        ELSE Ret(Filled(n_chan * n_samples, 1))

get_camera_rotation_angle(tel) == by_count(lib_get_camera_rotation_angle(tel))

get_optical_foclen(tel) == by_count(lib_get_optical_foclen(tel))

get_tel_event_gps_time(tel) ==
    IF lib_get_tel_event_gps_time(tel) = 0 THEN Ret(<<0, 0>>)
    ELSE Raise("HessioGeneralError")

-----------------------------------------------------------------------------
(* The record of the last call *)
\* The handle whose open the library has just refused with -2 (a file is
\* already open), 0 when the call before was anything else.
Refused ==
    IF last.op \in {"open_file", "open_hessio"} /\ last.exc = "HessioError"
                                               /\ last.arg = 1
    THEN last.h ELSE 0

\* What a caller can read of the run and of the current event.
Snapshot ==
    <<get_run_number, get_global_event_count, get_num_teldata, get_teldata_list,
      get_mc_event_xcore, get_num_pixels(47), get_adc_sum(38)>>

\* What the caller has kept of a returned value: the call it is from, the value
\* it had when returned, and ref, the generator whose result array the kept
\* object is (0 for an object of its own).
NoKept == [on |-> FALSE, from |-> "", ref |-> 0, val |-> <<>>]

\* The record of a call.  The field after tells whether the call follows a
\* refused open.  When rec is set the record also keeps the history of the
\* sessions: run counts the streams opened so far (up to 2), trace lists the
\* advances made on the stream opened last, each with its outcome and with
\* what the accessors return after it, and first is the trace of the first
\* stream.  The field owner is the handle whose open gave the library the
\* stream it has, 0 when it has none, and ever is the set of the handles whose
\* object has opened a stream at some time since it was constructed.  The
\* field gens tells of each generator whether it was made while a stream was
\* open ("in") and whether that stream has been closed since ("past").
Call(op, h, it, arg, fname, exc, val, libcalls, blocks) ==
    LET opened == /\ last.rec
                  /\ op \in {"open_file", "open_hessio"}
                  /\ exc = "none" /\ fname # ""
        advanced == /\ last.rec
                    /\ op \in {"fill_next_event", "fill_next_mc_event"}
                    /\ file_is_opened
                    /\ Len(last.trace) < MaxTrace
    IN  [op |-> op, h |-> h, it |-> it, arg |-> arg, fname |-> fname,
         exc |-> exc, val |-> val, libcalls |-> libcalls, blocks |-> blocks,
         after |-> Refused, chan |-> -1, rec |-> last.rec,
         run |-> IF opened /\ last.run < 2 THEN last.run + 1 ELSE last.run,
         first |-> IF opened /\ last.run = 1 THEN last.trace ELSE last.first,
         trace |-> IF opened THEN <<>>
                   ELSE IF advanced
                   THEN Append(last.trace, [op |-> op, exc |-> exc, val |-> val,
                                            snap |-> Snapshot'])
                   ELSE last.trace,
         kept |-> last.kept,
         owner |-> IF op \in {"open_file", "open_hessio"}
                      /\ exc = "none" /\ fname # ""
                   THEN h
                   ELSE IF op \in {"close_file", "module_close_file",
                                   "exit_hessio"}
                   THEN 0
                   ELSE last.owner,
         ever |-> IF op = "open_hessio" /\ exc = "none"
                  THEN IF fname # "" THEN last.ever \cup {h}
                       ELSE last.ever \ {h}
                  ELSE IF op = "open_file" /\ exc = "none"
                  THEN last.ever \cup {h}
                  ELSE last.ever,
         gens |-> [j \in Iters |->
                     IF op \in {"move_to_next_event", "move_to_next_mc_event"}
                        /\ j = it
                     THEN IF file_is_opened THEN "in" ELSE "out"
                     ELSE IF op \in {"close_file", "module_close_file",
                                     "exit_hessio"}
                             /\ last.gens[j] = "in"
                     THEN "past"
                     ELSE last.gens[j]]]

\* A generator object; result is its one-element array that the library
\* writes the event id to.
NoIter == [st |-> "none", h |-> 0, mode |-> "data", limit |-> 0, evt_num |-> 0,
           run_id |-> 0, yielded |-> 0, avail |-> 0, alone |-> FALSE,
           result |-> 0]
DoneIter(g) == [NoIter EXCEPT !.st = "done", !.h = g.h, !.mode = g.mode,
                !.limit = g.limit, !.yielded = g.yielded, !.avail = g.avail,
                !.alone = g.alone, !.result = g.result]

\* The events of one kind among the blocks from p on.
Remaining(target, p) ==
    Cardinality({k \in p..Len(file) : file[k].type = target})

-----------------------------------------------------------------------------
(* HessioFile.open_file, close_file and the context manager *)

\* The generators after a call that moved or replaced the stream: none of
\* them has had the stream to itself; those of a replaced object are gone.
Disturbed(moved, gone) ==
    [j \in Iters |->
        IF iters[j].h = gone THEN NoIter
        ELSE IF moved /\ iters[j].st # "none" THEN [iters[j] EXCEPT !.alone = FALSE]
        ELSE iters[j]]

\* Recorded with an open or a close: 1 when a stream was open at the call.
WasOpen == IF file_is_opened THEN 1 ELSE 0

\* The session after a close: closing without an open stream changes nothing.
Closed == IF file_is_opened THEN "closed" ELSE session

\* As open_file_raises, without the branch for a file that is already open.
open_file_raises_missing_only(res) == res = -1

\* open_file raises HessioError on these results of lib.file_open.
open_file_raises(res) == res = -1 \/ res = -2

\* As open_file_body, with the new stream left where the last one ended.
open_file_body_no_rewind(h, filename) ==
    LET res == lib_file_open(filename)
    IN  /\ opened_filename' = [opened_filename EXCEPT ![h] = filename]
        /\ IF res = 0
           THEN /\ file_is_opened' = TRUE
                /\ pos' = IF session = "never" THEN 1 ELSE Len(file) + 1
                /\ hsdata' = "NULL"
                /\ event' = NoEvent
                /\ session' = "open"
           ELSE UNCHANGED <<file_is_opened, pos, hsdata, event, session>>

\* The body of HessioFile.open_file: the filename is recorded, then the
\* library is asked to open it.
open_file_body(h, filename) ==
    LET res == lib_file_open(filename)
    IN  /\ opened_filename' = [opened_filename EXCEPT ![h] = filename]
        /\ IF res = 0
           THEN /\ file_is_opened' = TRUE
                /\ pos' = 1
                /\ hsdata' = "NULL"
                /\ event' = NoEvent
                /\ session' = "open"
           ELSE UNCHANGED <<file_is_opened, pos, hsdata, event, session>>

open_file(h, filename) ==
    /\ ctx[h] # "none"
    /\ open_file_body(h, filename)
    /\ iters' = Disturbed(lib_file_open(filename) = 0, 0)
    /\ last' = Call("open_file", h, 0, WasOpen, filename,
                    IF open_file_raises(lib_file_open(filename))
                    THEN "HessioError" ELSE "none", <<>>, 0, 0)
    /\ UNCHANGED <<file, ctx>>

\* As close_file_exc, with the generators' 'input file is not open' check.
close_file_exc_checked(h) ==
    IF opened_filename[h] = None THEN "HessioError" ELSE "none"

\* What HessioFile.close_file raises: it has no failing path.
close_file_exc(h) == "none"

\* The body of HessioFile.close_file: the library closes its stream, the
\* handle forgets its filename.
close_file_body(h) ==
    /\ file_is_opened' = lib_closed.file_is_opened
    /\ pos' = lib_closed.pos
    /\ hsdata' = lib_closed.hsdata
    /\ event' = lib_closed.event
    /\ session' = Closed
    /\ opened_filename' = [opened_filename EXCEPT ![h] = None]

close_file(h) ==
    /\ ctx[h] # "none"
    /\ close_file_body(h)
    /\ iters' = Disturbed(TRUE, 0)
    /\ last' = Call("close_file", h, 0, WasOpen, "", close_file_exc(h), <<>>, 0, 0)
    /\ UNCHANGED <<file, ctx>>

\* As module_close_file, with nothing asked of the library.
module_close_file_no_call ==
    /\ last' = Call("module_close_file", 0, 0, WasOpen, "", "none", <<>>, 0, 0)
    /\ UNCHANGED <<file, file_is_opened, pos, hsdata, event, session, iters,
                   ctx, opened_filename>>

\* The module-level pyhessio.close_file().
module_close_file ==
    /\ file_is_opened' = lib_closed.file_is_opened
    /\ pos' = lib_closed.pos
    /\ hsdata' = lib_closed.hsdata
    /\ event' = lib_closed.event
    /\ session' = Closed
    /\ iters' = Disturbed(TRUE, 0)
    /\ last' = Call("module_close_file", 0, 0, WasOpen, "", "none", <<>>, 0, 0)
    /\ UNCHANGED <<file, ctx, opened_filename>>

\* with open_hessio(filename) as h: HessioFile.__init__ opens the file when a
\* filename is given; the block is entered unless the constructor raised.  The
\* new object takes the slot h, and the generators of the object it replaces
\* are gone with it.
open_hessio(h, filename) ==
    /\ ctx[h] # "in"
    /\ IF filename = ""
       THEN /\ opened_filename' = [opened_filename EXCEPT ![h] = None]
            /\ ctx' = [ctx EXCEPT ![h] = "in"]
            /\ iters' = Disturbed(FALSE, h)
            /\ last' = Call("open_hessio", h, 0, WasOpen, filename, "none",
                            <<>>, 0, 0)
            /\ UNCHANGED <<file_is_opened, pos, hsdata, event, session>>
       ELSE IF open_file_raises(lib_file_open(filename))
       THEN /\ last' = Call("open_hessio", h, 0, WasOpen, filename,
                            "HessioError", <<>>, 0, 0)
            /\ UNCHANGED <<file_is_opened, pos, hsdata, event, session,
                           opened_filename, ctx, iters>>
       ELSE /\ open_file_body(h, filename)
            /\ ctx' = [ctx EXCEPT ![h] = "in"]
            /\ iters' = Disturbed(lib_file_open(filename) = 0, h)
            /\ last' = Call("open_hessio", h, 0, WasOpen, filename, "none",
                            <<>>, 0, 0)
    /\ UNCHANGED file

\* As exit_hessio, without the try/finally: an exception of the body skips
\* the close.
exit_hessio_no_finally(h, how) ==
    /\ ctx[h] = "in"
    /\ IF how = "raise"
       THEN UNCHANGED <<file_is_opened, pos, hsdata, event, session,
                        opened_filename, iters>>
       ELSE close_file_body(h) /\ iters' = Disturbed(TRUE, 0)
    /\ ctx' = [ctx EXCEPT ![h] = "out"]
    /\ last' = Call("exit_hessio", h, 0, WasOpen, "",
                    IF how = "raise" THEN "BodyError" ELSE "none", <<>>, 0, 0)
    /\ UNCHANGED file

\* Leaving the with block, normally or by an exception of its body: the
\* finally clause closes the file.
exit_hessio(h, how) ==
    /\ ctx[h] = "in"
    /\ close_file_body(h)
    /\ ctx' = [ctx EXCEPT ![h] = "out"]
    /\ iters' = Disturbed(TRUE, 0)
    /\ last' = Call("exit_hessio", h, 0, WasOpen, "",
                    IF close_file_exc(h) # "none" THEN close_file_exc(h)
                    ELSE IF how = "raise" THEN "BodyError" ELSE "none",
                    <<>>, 0, 0)
    /\ UNCHANGED file

-----------------------------------------------------------------------------
(* Advancing: fill_next_event, fill_next_mc_event and the generators *)

\* As fill_raises, with no outcome taken as an error.
fill_raises_never(run_id, event_number) == FALSE

\* As fill_raises, without the test of the return code.
fill_raises_id_only(run_id, event_number) == event_number = -1

\* fill_next_event raises HessioError on these outcomes of the library call.
fill_raises(run_id, event_number) == run_id = -1 \/ event_number = -1

\* The library state after one call of lib.move_to_next_(mc_)event.
advance_lib(r) ==
    /\ pos' = r.pos
    /\ hsdata' = r.hsdata
    /\ event' = r.event
    /\ session' = IF file_is_opened /\ r.rc = -1 THEN "eof" ELSE session
    /\ UNCHANGED file_is_opened

fill_next(op, target, h) ==
    LET r == lib_move_to_next(target)
    IN  /\ ctx[h] # "none"
        /\ advance_lib(r)
        /\ iters' = Disturbed(TRUE, 0)
        /\ last' = Call(op, h, 0, 0, "",
                        IF fill_raises(r.rc, r.id) THEN "HessioError" ELSE "none",
                        IF fill_raises(r.rc, r.id) THEN <<>> ELSE <<r.id>>,
                        1, r.blocks)
        /\ UNCHANGED <<file, ctx, opened_filename>>

fill_next_event(h) == fill_next("fill_next_event", "data", h)

fill_next_mc_event(h) == fill_next("fill_next_mc_event", "mc", h)

\* The generator's first check: the handle has no filename recorded.
not_open(h) == opened_filename[h] = None

\* As new_generator, with the stream taken back to its first block.
new_generator_rewinds(op, target, it, h, limit) ==
    /\ ctx[h] # "none"
    /\ iters' = [iters EXCEPT ![it] =
                    [st |-> "created", h |-> h, mode |-> target, limit |-> limit,
                     evt_num |-> 0, run_id |-> 0, yielded |-> 0,
                     avail |-> Remaining(target, 1),
                     alone |-> file_is_opened /\ ~not_open(h),
                     result |-> 0]]
    /\ pos' = 1
    /\ last' = Call(op, h, it, limit, "", "none", <<>>, 0, 0)
    /\ UNCHANGED <<file, file_is_opened, hsdata, event, opened_filename,
                   ctx, session>>

\* Calling move_to_next_event / move_to_next_mc_event makes a generator object;
\* none of the function's body runs before the first next().
new_generator(op, target, it, h, limit) ==
    /\ ctx[h] # "none"
    /\ iters' = [iters EXCEPT ![it] =
                    [st |-> "created", h |-> h, mode |-> target, limit |-> limit,
                     evt_num |-> 0, run_id |-> 0, yielded |-> 0,
                     avail |-> Remaining(target, pos),
                     alone |-> file_is_opened /\ ~not_open(h),
                     result |-> 0]]
    /\ last' = Call(op, h, it, limit, "", "none", <<>>, 0, 0)
    /\ UNCHANGED <<file, file_is_opened, pos, hsdata, event, opened_filename,
                   ctx, session>>

move_to_next_event(it, h, limit) ==
    new_generator("move_to_next_event", "data", it, h, limit)

move_to_next_mc_event(it, h, limit) ==
    new_generator("move_to_next_mc_event", "mc", it, h, limit)

\* As loop_continues, with limit 0 taken as a limit of no event.
loop_continues_zero_is_limit(run_id, limit, evt_num) ==
    run_id >= 0 /\ evt_num < limit

\* As loop_continues, with the limit compared by <=.
loop_continues_off_by_one(run_id, limit, evt_num) ==
    run_id >= 0 /\ (limit = 0 \/ evt_num <= limit)

\* As loop_continues, with the limit never looked at.
loop_continues_limit_ignored(run_id, limit, evt_num) == run_id >= 0

\* The loop condition of the generators.
loop_continues(run_id, limit, evt_num) ==
    run_id >= 0 /\ (limit = 0 \/ evt_num < limit)

\* As yields, without the test of the return code.
yields_always(run_id) == TRUE

\* The generator yields after these results of the library call.
yields(run_id) == run_id # -1

\* next(generator): run the body up to its next yield or to its end.
next(it) ==
    LET g == iters[it]
        n == IF g.st = "suspended" THEN g.evt_num + 1 ELSE g.evt_num
        r == lib_move_to_next(g.mode)
        stop(exc, calls, blocks) ==
            /\ iters' = [Disturbed(calls > 0, -1) EXCEPT ![it] = DoneIter(g)]
            /\ last' = Call("next", g.h, it, g.limit, "", exc, <<>>, calls, blocks)
    IN  /\ g.st # "none"
        /\ n <= MaxYield
        /\ IF g.st = "done"
           THEN /\ last' = Call("next", g.h, it, g.limit, "", "StopIteration",
                                <<>>, 0, 0)
                /\ UNCHANGED <<file_is_opened, pos, hsdata, event, session, iters>>
           ELSE IF g.st = "created" /\ not_open(g.h)
           THEN /\ stop("HessioError", 0, 0)
                /\ UNCHANGED <<file_is_opened, pos, hsdata, event, session>>
           ELSE IF ~loop_continues(g.run_id, g.limit, n)
           THEN /\ stop("StopIteration", 0, 0)
                /\ UNCHANGED <<file_is_opened, pos, hsdata, event, session>>
           ELSE /\ advance_lib(r)
                /\ IF yields(r.rc)
                   THEN /\ iters' = [Disturbed(TRUE, -1) EXCEPT ![it] =
                                        [g EXCEPT !.st = "suspended",
                                                  !.evt_num = n,
                                                  !.run_id = r.rc,
                                                  !.yielded = g.yielded + 1,
                                                  !.result = r.id]]
                        /\ last' = Call("next", g.h, it, g.limit, "", "none",
                                        <<r.id>>, 1, r.blocks)
                   ELSE stop("StopIteration", 1, r.blocks)
        /\ UNCHANGED <<file, ctx, opened_filename>>

\* What the first next() of a generator made now would yield: <<id>>, or <<>>
\* when it raises HessioError or ends with StopIteration.
first_next(target, h, limit) ==
    LET r == lib_move_to_next(target)
    IN  IF not_open(h) THEN <<>>
        ELSE IF ~loop_continues(0, limit, 0) THEN <<>>
        ELSE IF yields(r.rc) THEN <<r.id>>
        ELSE <<>>

\* As yielded_object, yielding the generator's result array itself.
yielded_object_array(it, id) ==
    [on |-> TRUE, from |-> "next", ref |-> it, val |-> <<id>>]

\* The object a generator yields: result[0], a scalar of its own.
yielded_object(it, id) ==
    [on |-> TRUE, from |-> "next", ref |-> 0, val |-> <<id>>]

\* The object a fill_next_(mc_)event or an accessor returns: a scalar or an
\* array made by the call.
returned_object(op, val) == [on |-> TRUE, from |-> op, ref |-> 0, val |-> val]

\* The value of a kept object now.
Deref(k) == IF k.ref = 0 THEN k.val ELSE <<iters[k.ref].result>>

-----------------------------------------------------------------------------
(* The accessors asking for one channel, and the accessor calls *)

\* get_adc_sample(tel)[chan]: the caller indexes the returned array by the
\* channel; the array has no row for a channel the telescope does not have,
\* and the empty result has no row at all.
adc_sample_channel(tel, chan) ==
    LET data == get_adc_sample(tel)
        n_chan == get_num_channel(tel).val[1]
    IN  IF data.exc # "none" THEN data
        ELSE IF data.val = <<>> \/ chan >= n_chan THEN Raise("IndexError")
        ELSE Ret(SubSeq(data.val, chan * (Len(data.val) \div n_chan) + 1,
                        (chan + 1) * (Len(data.val) \div n_chan)))

GlobalAccessors == {"get_global_event_count", "get_run_number",
                    "get_num_telescope", "get_num_tel_trig", "get_num_teldata",
                    "get_teldata_list", "get_telescope_ids",
                    "get_mc_event_xcore"}
CheckedTelAccessors == {"get_num_channel", "get_num_pixels",
                        "get_event_num_samples",
                        "get_pixel_timing_num_times_types", "get_significant",
                        "get_adc_sample", "get_adc_sum",
                        "get_pixel_timing_timval"}
UncheckedTelAccessors == {"get_azimuth_raw", "get_adc_known", "get_ref_shapes",
                          "get_tel_event_gps_time"}
TelAccessors == CheckedTelAccessors \cup UncheckedTelAccessors
FieldAccessors == {"get_camera_rotation_angle", "get_optical_foclen"}
EventDataAccessors == {"get_adc_sample", "get_adc_sum", "get_significant",
                       "get_pixel_timing_timval",
                       "get_pixel_timing_num_times_types"}

result_of(name, tel) ==
    CASE name = "get_global_event_count" -> get_global_event_count
      [] name = "get_run_number" -> get_run_number
      [] name = "get_num_telescope" -> get_num_telescope
      [] name = "get_num_tel_trig" -> get_num_tel_trig
      [] name = "get_num_teldata" -> get_num_teldata
      [] name = "get_teldata_list" -> get_teldata_list
      [] name = "get_telescope_ids" -> get_telescope_ids
      [] name = "get_mc_event_xcore" -> get_mc_event_xcore
      [] name = "get_num_channel" -> get_num_channel(tel)
      [] name = "get_num_pixels" -> get_num_pixels(tel)
      [] name = "get_event_num_samples" -> get_event_num_samples(tel)
      [] name = "get_pixel_timing_num_times_types" ->
             get_pixel_timing_num_times_types(tel)
      [] name = "get_significant" -> get_significant(tel)
      [] name = "get_adc_sample" -> get_adc_sample(tel)
      [] name = "get_adc_sum" -> get_adc_sum(tel)
      [] name = "get_pixel_timing_timval" -> get_pixel_timing_timval(tel)
      [] name = "get_azimuth_raw" -> get_azimuth_raw(tel)
      [] name = "get_adc_known" -> get_adc_known(tel, 0, 0)
      [] name = "get_ref_shapes" -> get_ref_shapes(tel)
      [] name = "get_tel_event_gps_time" -> get_tel_event_gps_time(tel)
      [] name = "get_camera_rotation_angle" -> get_camera_rotation_angle(tel)
      [] name = "get_optical_foclen" -> get_optical_foclen(tel)

ChannelAccessors == {"get_adc_sample[chan]", "get_adc_known"}

channel_result_of(name, tel, chan) ==
    CASE name = "get_adc_sample[chan]" -> adc_sample_channel(tel, chan)
      [] name = "get_adc_known" -> get_adc_known(tel, chan, 0)

\* One call asking for the data of one channel of a telescope.
channel_accessor(h, name, tel, chan) ==
    /\ ctx[h] # "none"
    /\ last' = [Call(name, h, 0, tel, "", channel_result_of(name, tel, chan).exc,
                     channel_result_of(name, tel, chan).val, 0, 0)
                EXCEPT !.chan = chan]
    /\ UNCHANGED <<file, file_is_opened, pos, hsdata, event, opened_filename,
                   ctx, iters, session>>

\* As accessor, with the current event dropped by a call that raises.
accessor_drops_event(h, name, tel) ==
    /\ ctx[h] # "none"
    /\ event' = IF result_of(name, tel).exc # "none" THEN NoEvent ELSE event
    /\ last' = Call(name, h, 0, tel, "", result_of(name, tel).exc,
                    result_of(name, tel).val, 0, 0)
    /\ UNCHANGED <<file, file_is_opened, pos, hsdata, opened_filename,
                   ctx, iters, session>>

\* One accessor call on a handle: nothing but the record of the call changes.
accessor(h, name, tel) ==
    /\ ctx[h] # "none"
    /\ last' = Call(name, h, 0, tel, "", result_of(name, tel).exc,
                    result_of(name, tel).val, 0, 0)
    /\ UNCHANGED <<file, file_is_opened, pos, hsdata, event, opened_filename,
                   ctx, iters, session>>

-----------------------------------------------------------------------------
(* Specifications *)

NoCall == [op |-> "init", h |-> 0, it |-> 0, arg |-> 0, fname |-> "",
           exc |-> "none", val |-> <<>>, libcalls |-> 0, blocks |-> 0,
           after |-> 0, chan |-> -1, rec |-> FALSE, run |-> 0,
           first |-> <<>>, trace |-> <<>>, kept |-> NoKept,
           owner |-> 0, ever |-> {}, gens |-> [j \in Iters |-> "out"]]

Init ==
    /\ file \in Streams
    /\ file_is_opened = FALSE
    /\ pos = 1
    /\ hsdata = "NULL"
    /\ event = NoEvent
    /\ opened_filename = [h \in Handles |-> None]
    /\ ctx = [h \in Handles |-> "none"]
    /\ iters = [j \in Iters |-> NoIter]
    /\ session = "never"
    /\ last = NoCall

\* Two handles: opening, closing, the context manager and the fill_next forms.
Next ==
    \/ \E h \in Handles, f \in Filenames \cup {""} : open_hessio(h, f)
    \/ \E h \in Handles, how \in {"return", "raise"} : exit_hessio(h, how)
    \/ \E h \in Handles, f \in Filenames : open_file(h, f)
    \/ \E h \in Handles : close_file(h)
    \/ module_close_file
    \/ \E h \in Handles : fill_next_event(h)
    \/ \E h \in Handles : fill_next_mc_event(h)
    \/ \E h \in Handles, name \in {"get_run_number", "get_global_event_count",
                                   "get_mc_event_xcore"} : accessor(h, name, 0)
    \/ \E h \in Handles : accessor(h, "get_num_pixels", 47)

Spec == Init /\ [][Next]_vars

\* One handle: the accessors over every state of the stream.
NextAcc ==
    \/ \E f \in Filenames : open_hessio(1, f)
    \/ exit_hessio(1, "return")
    \/ \E f \in Filenames : open_file(1, f)
    \/ close_file(1)
    \/ fill_next_event(1)
    \/ fill_next_mc_event(1)
    \/ \E name \in GlobalAccessors : accessor(1, name, 0)
    \/ \E name \in TelAccessors, tel \in QueryTels : accessor(1, name, tel)
    \/ \E name \in FieldAccessors, tel \in ConfTels \cup {4000} :
           accessor(1, name, tel)
    \/ \E name \in ChannelAccessors, tel \in QueryTels, chan \in QueryChannels :
           channel_accessor(1, name, tel, chan)

SpecAcc == Init /\ [][NextAcc]_vars

\* One handle and one generator at a time.
NextIter ==
    \/ \E f \in {DataFile, ""} : open_hessio(1, f)
    \/ exit_hessio(1, "return")
    \/ open_file(1, DataFile)
    \/ close_file(1)
    \/ module_close_file
    \/ fill_next_event(1)
    \/ fill_next_mc_event(1)
    \/ \E limit \in 0..MaxLimit : move_to_next_event(1, 1, limit)
    \/ \E limit \in 0..MaxLimit : move_to_next_mc_event(1, 1, limit)
    \/ next(1)

SpecIter == Init /\ [][NextIter]_vars

\* The caller keeps the value that the last call returned or yielded.
keep ==
    /\ ~last.kept.on
    /\ last.exc = "none"
    /\ last.op \in {"next", "fill_next_event", "fill_next_mc_event"}
                     \cup GlobalAccessors \cup TelAccessors
    /\ last' = [last EXCEPT !.kept =
                    IF last.op = "next"
                    THEN yielded_object(last.it, last.val[1])
                    ELSE returned_object(last.op, last.val)]
    /\ UNCHANGED <<file, file_is_opened, pos, hsdata, event, opened_filename,
                   ctx, iters, session>>

\* One handle whose caller keeps one returned value over the calls that
\* follow: advances, a close, a re-open.
NextKeep ==
    \/ open_hessio(1, DataFile)
    \/ open_file(1, DataFile)
    \/ close_file(1)
    \/ fill_next_event(1)
    \/ move_to_next_event(1, 1, 0)
    \/ move_to_next_mc_event(1, 1, 0)
    \/ next(1)
    \/ accessor(1, "get_adc_sum", 38)
    \/ keep

SpecKeep == Init /\ [][NextKeep]_vars

\* One handle, with the history of the sessions recorded: streams opened and
\* closed one after the other, each advanced by fill_next_(mc_)event.
InitReplay ==
    /\ file \in Streams
    /\ file_is_opened = FALSE
    /\ pos = 1
    /\ hsdata = "NULL"
    /\ event = NoEvent
    /\ opened_filename = [h \in Handles |-> None]
    /\ ctx = [h \in Handles |-> "none"]
    /\ iters = [j \in Iters |-> NoIter]
    /\ session = "never"
    /\ last = [NoCall EXCEPT !.rec = TRUE]

NextReplay ==
    \/ open_hessio(1, DataFile)
    \/ exit_hessio(1, "return")
    \/ open_file(1, DataFile)
    \/ close_file(1)
    \/ module_close_file
    \/ fill_next_event(1)
    \/ fill_next_mc_event(1)

SpecReplay == InitReplay /\ [][NextReplay]_vars

-----------------------------------------------------------------------------
(* Properties *)

Accessors == GlobalAccessors \cup TelAccessors
AdvanceOps == {"fill_next_event", "fill_next_mc_event", "next"}
Min(a, b) == IF a < b THEN a ELSE b

\* What the next advance of each kind would return and leave behind.
NextAdvance == <<lib_move_to_next("data"), lib_move_to_next("mc")>>

\* C1: an open (open_file, or the open of a new HessioFile) while a stream is
\* open raises HessioError, and the open stream stays open with its position
\* and its event, so that the next advance yields what it would have yielded.
C1_SecondOpenFails ==
    [][(file_is_opened /\ last'.op \in {"open_file", "open_hessio"}
                       /\ last'.fname # "")
        => /\ last'.exc = "HessioError"
           /\ file_is_opened'
           /\ pos' = pos
           /\ event' = event
           /\ hsdata' = hsdata
           /\ NextAdvance' = NextAdvance]_vars

C1_Witness ==
    /\ last.op = "open_file"
    /\ last.arg = 1
    /\ last.exc = "HessioError"
    /\ file_is_opened
    /\ pos > 1
    /\ pos <= Len(file)

\* The accessors that hand the library's return value on without a check.
PassThrough == {"get_global_event_count", "get_mc_event_xcore",
                "get_azimuth_raw", "get_adc_known"}

\* C2 as stated: after close_file every accessor call fails with an error
\* until a stream is opened again.
C2_Original ==
    (session = "closed" /\ last.op \in Accessors) => last.exc # "none"

\* C2, amended: after close_file, until a stream is opened again, the
\* accessors that check the library's result raise HessioGeneralError; those
\* that pass it on unchecked raise nothing and return the library's
\* not-available value (-1 or 0), never a value of the closed stream.
C2_AfterClose ==
    (session = "closed" /\ last.op \in Accessors)
        => IF last.op \in PassThrough
           THEN /\ last.exc = "none"
                /\ last.val = IF last.op \in {"get_global_event_count",
                                              "get_adc_known"}
                              THEN <<-1>> ELSE <<0>>
           ELSE last.exc = "HessioGeneralError"

C2_Witness ==
    /\ session = "closed"
    /\ last.op = "get_run_number"
    /\ last.exc = "HessioGeneralError"

\* C3 as stated: for a telescope id that is not configured, every accessor
\* taking a telescope id raises HessioTelescopeIndexError.
C3_Original ==
    (hsdata = "set" /\ last.op \in TelAccessors /\ last.arg \notin ConfTels)
        => last.exc = "HessioTelescopeIndexError"

\* C3, amended: with the run configuration read, for a telescope id that is
\* not configured the accessors that test for TEL_INDEX_NOT_VALID raise
\* HessioTelescopeIndexError; get_tel_event_gps_time and get_ref_shapes raise
\* HessioGeneralError; get_azimuth_raw and get_adc_known raise nothing and
\* return the library's value (0, TEL_INDEX_NOT_VALID).
C3_UnconfiguredTelescope ==
    (hsdata = "set" /\ last.op \in TelAccessors /\ last.arg \notin ConfTels)
        => CASE last.op \in CheckedTelAccessors ->
                    last.exc = "HessioTelescopeIndexError"
             [] last.op \in {"get_tel_event_gps_time", "get_ref_shapes"} ->
                    last.exc = "HessioGeneralError"
             [] last.op = "get_azimuth_raw" ->
                    last.exc = "none" /\ last.val = <<0>>
             [] last.op = "get_adc_known" ->
                    last.exc = "none" /\ last.val = <<TEL_INDEX_NOT_VALID>>

C3_Witness ==
    /\ hsdata = "set"
    /\ last.op = "get_adc_sample"
    /\ last.arg = 4000
    /\ last.exc = "HessioTelescopeIndexError"

\* C4 as stated: for a configured telescope without data in the current
\* event, the per-event data accessors raise HessioGeneralError.
C4_Original ==
    (hsdata = "set" /\ last.op \in EventDataAccessors
                    /\ last.arg \in ConfTels /\ last.arg \notin event.teldata)
        => last.exc = "HessioGeneralError"

\* C4, amended: for a configured telescope without data in the current event,
\* get_adc_sample, get_adc_sum, get_significant and get_pixel_timing_timval
\* raise HessioGeneralError, and get_pixel_timing_num_times_types returns 0.
C4_NoDataForTelescope ==
    (hsdata = "set" /\ last.op \in EventDataAccessors
                    /\ last.arg \in ConfTels /\ last.arg \notin event.teldata)
        => IF last.op = "get_pixel_timing_num_times_types"
           THEN last.exc = "none" /\ last.val = <<0>>
           ELSE last.exc = "HessioGeneralError"

C4_Witness ==
    /\ hsdata = "set"
    /\ event.teldata = {38}
    /\ last.op = "get_adc_sum"
    /\ last.arg = 47
    /\ last.exc = "HessioGeneralError"

\* The last call was an advance that the library answered with -1 on an open
\* stream: the end of the stream.
AtEnd ==
    /\ file_is_opened
    /\ session = "eof"
    /\ last.op \in AdvanceOps
    /\ last.libcalls = 1

\* C5 as stated: every advance operation reports the end of the stream as a
\* normal outcome, never raising an error.
C5_Original == AtEnd => last.exc \in {"none", "StopIteration"}

\* C5, amended: at the end of the stream, and at every further advance, the
\* generators stop normally (StopIteration) while fill_next_event and
\* fill_next_mc_event raise HessioError; no event is returned, the stream
\* stays open at its end and the run configuration stays readable.
C5_EndOfStream ==
    AtEnd => /\ last.val = <<>>
             /\ last.op = "next" => last.exc = "StopIteration"
             /\ last.op # "next" => last.exc = "HessioError"
             /\ pos = Len(file) + 1
             /\ get_run_number = Ret(<<RunNumber>>)
             /\ get_num_telescope = Ret(<<Len(TelescopeIds)>>)

C5_Witness ==
    /\ AtEnd
    /\ last.op = "fill_next_mc_event"
    /\ last.exc = "HessioError"
    /\ last.blocks = 0
    /\ event.mc_event # -1

\* C6 as stated: once an advance has reported the end of the open stream, no
\* later advance calls the library to read again.
C6_Original ==
    [][(session = "eof" /\ last'.op \in AdvanceOps) => last'.libcalls = 0]_vars

\* C6, amended: once an advance has reported the end of the open stream, a
\* further next() on an exhausted generator makes no library call; fill_next_*
\* and the first next() of a new generator on an open handle call the library
\* once more, which reads no block, moves nothing and returns no event.
C6_NoReadAfterEnd ==
    [][(session = "eof" /\ last'.op \in AdvanceOps)
        => /\ last'.blocks = 0
           /\ last'.val = <<>>
           /\ pos' = pos
           /\ event' = event
           /\ last'.op # "next" => last'.libcalls = 1
           /\ (last'.op = "next" /\ iters[last'.it].st = "done")
                 => last'.libcalls = 0
           /\ (last'.op = "next" /\ iters[last'.it].st = "created"
                                 /\ ~not_open(iters[last'.it].h))
                 => last'.libcalls = 1]_vars

C6_Witness ==
    /\ session = "eof"
    /\ last.op = "next"
    /\ last.exc = "StopIteration"
    /\ last.libcalls = 0
    /\ iters[1].st = "done"
    /\ iters[1].alone
    /\ iters[1].limit = 0

\* C7: a generator with limit N > 0 that has the open stream to itself yields
\* exactly min(N, events remaining) events and then stops; with limit 0 it
\* yields every remaining event and then stops.
C7_LimitCount ==
    \A it \in Iters :
        LET g == iters[it]
            due == IF g.limit = 0 THEN g.avail ELSE Min(g.limit, g.avail)
        IN  g.alone => /\ g.yielded <= due
                       /\ g.st = "done" => g.yielded = due

C7_Witness ==
    /\ iters[1].st = "done"
    /\ iters[1].alone
    /\ iters[1].limit = 1
    /\ iters[1].avail = 2
    /\ iters[1].yielded = 1

\* C8: calling move_to_next_event or move_to_next_mc_event on a handle with no
\* open file raises HessioError at the call, and reads nothing.
C8_RaisesAtCall ==
    (last.op \in {"move_to_next_event", "move_to_next_mc_event"}
        /\ not_open(last.h))
        => last.exc = "HessioError" /\ last.libcalls = 0

\* C9: a close (HessioFile.close_file, the module-level close_file, or the
\* exit of the with block) while no stream is open raises nothing and leaves
\* the library in the same state without a stream.
C9_CloseIdempotent ==
    [][(~file_is_opened /\ last'.op \in {"close_file", "module_close_file",
                                         "exit_hessio"})
        => /\ last'.exc \in {"none", "BodyError"}
           /\ last'.op # "exit_hessio" => last'.exc = "none"
           /\ ~file_is_opened'
           /\ <<pos, hsdata, event, session>>' = <<pos, hsdata, event, session>>
           /\ \A h \in Handles : opened_filename'[h] = None
                                    \/ opened_filename'[h] = opened_filename[h]]_vars

C9_Witness ==
    /\ last.op = "close_file"
    /\ last.arg = 0
    /\ last.exc = "none"
    /\ session = "closed"
    /\ ~file_is_opened

\* C10: when an open_hessio block is left, normally or by an exception of its
\* body, no stream is open any more and an open of the data file succeeds.
C10_ExitCloses ==
    last.op = "exit_hessio"
        => /\ ~file_is_opened
           /\ ~open_file_raises(lib_file_open(DataFile))
           /\ opened_filename[last.h] = None

C10_Witness ==
    /\ last.op = "exit_hessio"
    /\ last.exc = "BodyError"
    /\ last.arg = 1
    /\ session = "closed"

\* C11: after an open that was refused because a file is already open, the
\* module-level close_file() closes the stream, with any handle having opened
\* it and any handle refused, and an open_file of the data file right after it
\* succeeds on either handle with the stream at its start.
C11_ModuleCloseRecovers ==
    [][/\ (last.after # 0 /\ last.op = "module_close_file")
            => ~file_is_opened /\ ~open_file_raises(lib_file_open(DataFile))
       /\ (last.after # 0 /\ last.op = "module_close_file"
                          /\ last'.op = "open_file" /\ last'.fname = DataFile)
            => /\ last'.exc = "none"
               /\ file_is_opened'
               /\ pos' = 1
               /\ hsdata' = "NULL"]_vars

C11_Witness ==
    /\ last.op = "module_close_file"
    /\ last.after = 2
    /\ last.arg = 1
    /\ opened_filename[1] = DataFile
    /\ opened_filename[2] = MissingFile
    /\ ~file_is_opened

\* C12: asking for the ADC data of a channel index equal to or greater than
\* the gain-channel count of a configured telescope with data in the event
\* raises HessioChannelIndexError.
C12_ChannelIndexError ==
    (last.op \in ChannelAccessors /\ hsdata = "set"
        /\ last.arg \in event.teldata /\ last.chan >= NumGains(last.arg))
        => last.exc = "HessioChannelIndexError"

CountAccessors == {"get_run_number", "get_num_telescope", "get_num_tel_trig",
                   "get_num_teldata"}

\* The library's value behind each of the counting accessors.
LibCount(name) ==
    CASE name = "get_run_number" -> lib_get_run_number
      [] name = "get_num_telescope" -> lib_get_num_telescope
      [] name = "get_num_tel_trig" -> lib_get_num_tel_trig
      [] name = "get_num_teldata" -> lib_get_num_teldata

\* C13: get_run_number, get_num_telescope, get_num_tel_trig and
\* get_num_teldata raise HessioGeneralError exactly when the library's value is
\* negative; a value of zero is returned as 0.
C13_NegativeOnly ==
    last.op \in CountAccessors
        => /\ last.exc = "HessioGeneralError" <=> LibCount(last.op) < 0
           /\ LibCount(last.op) >= 0
                => last.exc = "none" /\ last.val = <<LibCount(last.op)>>

\* C14: for a configured telescope whose sample count in the current event is
\* 0, get_adc_sample raises nothing and returns an empty result.
C14_NoSamplesEmpty ==
    (last.op = "get_adc_sample" /\ last.arg \in ConfTels
        /\ lib_get_event_num_samples(last.arg) = 0)
        => last.exc = "none" /\ last.val = <<>>

C14_Witness ==
    /\ last.op = "get_adc_sample"
    /\ last.arg = 47
    /\ 47 \in event.teldata
    /\ get_event_num_samples(47) = Ret(<<0>>)
    /\ last.exc = "none"
    /\ last.val = <<>>

\* The last call was an advance in the given mode that returned an event:
\* fill_next_(mc_)event returned, or next() of a generator of that mode yielded.
Yielded(mode) ==
    /\ last.exc = "none"
    /\ \/ last.op = (IF mode = "data" THEN "fill_next_event"
                                       ELSE "fill_next_mc_event")
       \/ last.op = "next" /\ iters[last.it].mode = mode

\* C15: right after an advance in triggered-event mode (fill_next_event, or
\* next() of a move_to_next_event generator) has returned an event, that event
\* is the current one and get_num_tel_trig returns a count of at least 1.
C15_TriggeredNonEmpty ==
    Yielded("data")
        => /\ last.val = <<event.glob_count>>
           /\ get_num_tel_trig.exc = "none"
           /\ get_num_tel_trig.val[1] >= 1

C15_Witness ==
    /\ Yielded("data")
    /\ last.op = "next"
    /\ Len(file) = 3
    /\ file[1].type = "mc"
    /\ file[2].type = "mc"
    /\ last.val = <<EventId(2)>>
    /\ get_num_tel_trig = Ret(<<2>>)

\* The ids of the simulated showers of the stream, in stream order.
IsMc(b) == b.type = "mc"
ShowerIds == [k \in 1..Len(SelectSeq(file, IsMc)) |-> SelectSeq(file, IsMc)[k].id]

\* C16: a move_to_next_mc_event generator with limit 0, made on a freshly
\* opened stream that it has to itself, yields at its k-th next() the k-th
\* simulated shower of the stream, triggered or not, and stops after the last.
C16_EveryShowerOnce ==
    \A it \in Iters :
        LET g == iters[it]
        IN  (g.alone /\ g.mode = "mc" /\ g.limit = 0 /\ g.avail = Len(ShowerIds))
            => /\ g.yielded <= Len(ShowerIds)
               /\ g.st = "done" => g.yielded = Len(ShowerIds)
               /\ (last.op = "next" /\ last.it = it /\ last.exc = "none")
                    => /\ last.val = <<ShowerIds[g.yielded]>>
                       /\ event.mc_event = ShowerIds[g.yielded]

C16_Witness ==
    /\ iters[1].st = "done"
    /\ iters[1].alone
    /\ iters[1].mode = "mc"
    /\ iters[1].limit = 0
    /\ iters[1].yielded = 2
    /\ Len(file) = 3
    /\ file[2].type = "mc"
    /\ last.op = "next"
    /\ last.exc = "StopIteration"

\* The shower of this id triggered no telescope: the stream has no data block
\* for it.
Untriggered(id) == ~\E k \in 1..Len(file) : file[k].type = "data" /\ file[k].id = id

\* The telescopes of the last data block read since the stream was opened.
PriorData == {k \in 1..(pos - 1) : file[k].type = "data"}
LastDataTels ==
    IF PriorData = {} THEN {}
    ELSE file[CHOOSE k \in PriorData : \A j \in PriorData : j <= k].tels
InLastData(tel) == tel \in LastDataTels

\* C17 as stated: after an advance in all-simulated mode onto a shower that
\* triggered no telescope, get_num_teldata returns 0, get_teldata_list an empty
\* list, and the shower-truth accessors that shower's values.
C17_Original ==
    (Yielded("mc") /\ Untriggered(last.val[1]))
        => /\ get_num_teldata = Ret(<<0>>)
           /\ get_teldata_list = Ret(<<>>)
           /\ get_mc_event_xcore = Ret(<<XCore(last.val[1])>>)

\* C17, amended: after an advance in all-simulated mode onto a shower that
\* triggered no telescope, the shower-truth accessors return that shower's
\* values, and get_num_teldata and get_teldata_list raise nothing and report
\* the telescopes of the last data event read since the stream was opened: 0
\* and an empty list only when no data event was read before.
C17_UntriggeredShower ==
    (Yielded("mc") /\ Untriggered(last.val[1]))
        => /\ get_num_teldata = Ret(<<Cardinality(LastDataTels)>>)
           /\ get_teldata_list = Ret(SelectSeq(TelescopeIds, InLastData))
           /\ PriorData = {} => get_num_teldata = Ret(<<0>>)
           /\ get_mc_event_xcore = Ret(<<XCore(last.val[1])>>)

C17_Witness ==
    /\ Yielded("mc")
    /\ Untriggered(last.val[1])
    /\ last.val = <<EventId(2)>>
    /\ get_num_teldata = Ret(<<2>>)
    /\ get_teldata_list = Ret(<<38, 47>>)

C19_TelescopeIdsStable ==
    [][(file_is_opened /\ last'.op \in AdvanceOps)
        => /\ file_is_opened'
           /\ get_telescope_ids.exc = "none"
                => get_telescope_ids' = get_telescope_ids
           /\ last'.libcalls = 1 => get_telescope_ids' = Ret(TelescopeIds)]_vars

C19_Witness ==
    /\ file_is_opened
    /\ last.op = "next"
    /\ last.exc = "none"
    /\ iters[1].mode = "mc"
    /\ iters[1].yielded = 2
    /\ event.glob_count # -1
    /\ get_telescope_ids = Ret(<<1, 38, 47>>)

\* C20: an accessor call, whether it returns a value or raises
\* HessioTelescopeIndexError or HessioGeneralError, leaves the open or closed
\* state, the stream position, the run configuration and the current event
\* as they were, so that the next advance of either kind yields what it would
\* have yielded without the call.
C20_AccessorsReadOnly ==
    [][(last'.op \in Accessors \cup ChannelAccessors)
        => /\ file_is_opened' = file_is_opened
           /\ pos' = pos
           /\ hsdata' = hsdata
           /\ event' = event
           /\ opened_filename' = opened_filename
           /\ session' = session
           /\ NextAdvance' = NextAdvance]_vars

C20_Witness ==
    /\ last.op = "get_num_pixels"
    /\ last.arg = 4000
    /\ last.exc = "HessioTelescopeIndexError"
    /\ file_is_opened
    /\ event.glob_count # -1
    /\ NextAdvance[1].rc # -1

\* C21: a value or array returned by an accessor or by fill_next_(mc_)event,
\* and an event id yielded by a generator, once kept by the caller, has the
\* value it had when returned after every later advance, close and re-open.
C21_ReturnedByValue ==
    last.kept.on => Deref(last.kept) = last.kept.val

C21_Witness ==
    /\ last.kept.on
    /\ last.kept.from = "next"
    /\ last.op = "next"
    /\ last.exc = "none"
    /\ last.val # last.kept.val
    /\ iters[1].yielded = 2
    /\ session = "open"

\* C22: after an advance (fill_next_event, fill_next_mc_event, or a next() of
\* either generator) that returned the event id e, get_event_id returns e.
C22_EventIdOfAdvance ==
    (Yielded("data") \/ Yielded("mc")) => get_event_id = Ret(last.val)

\* A stream is open and no advance has read it yet.
BeforeFirstAdvance == file_is_opened /\ hsdata = "NULL"

\* C23 as stated: between a successful open and the first advance, every
\* accessor taking a telescope id raises HessioGeneralError for every id.
C23_Original ==
    (BeforeFirstAdvance /\ last.op \in TelAccessors)
        => last.exc = "HessioGeneralError"

\* C23, amended: between a successful open and the first advance, for every
\* telescope id, configured or not, the accessors that check the library's
\* result (get_num_pixels, get_num_channel, get_adc_sample, get_ref_shapes,
\* get_tel_event_gps_time, ...) raise HessioGeneralError; get_azimuth_raw and
\* get_adc_known raise nothing and return the library's value (0, -1).
C23_BeforeFirstAdvance ==
    (BeforeFirstAdvance /\ last.op \in TelAccessors)
        => CASE last.op = "get_azimuth_raw" ->
                    last.exc = "none" /\ last.val = <<0>>
             [] last.op = "get_adc_known" ->
                    last.exc = "none" /\ last.val = <<-1>>
             [] OTHER -> last.exc = "HessioGeneralError"

C23_Witness ==
    /\ BeforeFirstAdvance
    /\ session = "open"
    /\ last.op = "get_num_pixels"
    /\ last.arg = 4000
    /\ last.exc = "HessioGeneralError"

\* What the library would return to an advance of the generator's mode.
AdvanceOf(mode) == IF mode = "data" THEN NextAdvance[1] ELSE NextAdvance[2]

\* C24: generators on one open stream resume it and do not rewind it: making
\* a generator moves nothing, and a next() that yields, on a generator just
\* made or on one that has yielded before, yields the event that follows the
\* stream's position and leaves the stream after it; a generator just made on
\* the open handle yields whenever the stream has a further event, whatever
\* the generators before it have yielded.
C24_ResumeNotRewind ==
    [][/\ last'.op \in {"move_to_next_event", "move_to_next_mc_event"}
            => pos' = pos /\ event' = event /\ NextAdvance' = NextAdvance
       /\ (last'.op = "next" /\ last'.exc = "none")
            => /\ last'.val = <<AdvanceOf(iters[last'.it].mode).id>>
               /\ pos' = AdvanceOf(iters[last'.it].mode).pos
               /\ event' = AdvanceOf(iters[last'.it].mode).event
       /\ (last'.op = "next" /\ iters[last'.it].st = "created"
                             /\ ~not_open(iters[last'.it].h)
                             /\ AdvanceOf(iters[last'.it].mode).rc # -1)
            => last'.exc = "none"]_vars

C24_Witness ==
    /\ last.op = "next"
    /\ last.exc = "none"
    /\ iters[1].mode = "data"
    /\ iters[1].limit = 1
    /\ iters[1].yielded = 1
    /\ iters[1].avail = 1
    /\ Len(file) = 4
    /\ last.val = <<EventId(2)>>

\* The value the run configuration holds for the field an accessor reads.
Stored(name, tel) ==
    IF name = "get_camera_rotation_angle" THEN CamRot(tel) ELSE OpticalFoclen(tel)

\* C25: for a configured telescope whose field is populated,
\* get_camera_rotation_angle and get_optical_foclen return the stored value
\* whatever its sign; for a telescope id that is not configured they raise
\* HessioTelescopeIndexError.
C25_StoredValueReturned ==
    (hsdata = "set" /\ last.op \in FieldAccessors)
        => IF last.arg \in ConfTels
           THEN last.exc = "none" /\ last.val = <<Stored(last.op, last.arg)>>
           ELSE last.exc = "HessioTelescopeIndexError"

\* C26: after any sequence of opens, failed opens and closes, a handle has an
\* opened filename recorded exactly when the library has a stream open that
\* this handle opened.
C26_FilenameIffOwnStream ==
    \A h \in Handles :
        opened_filename[h] # None <=> (file_is_opened /\ last.owner = h)

\* C27: closing a handle whose object never opened a stream (close_file, or
\* leaving its open_hessio block) leaves the stream another handle has open
\* as it is: still open, at the same position, with the same current event.
C27_CloseLeavesOthersStream ==
    [][\A h \in Handles :
          /\ close_file(h) \/ exit_hessio(h, "return")
          /\ h \notin last.ever
          /\ file_is_opened
          /\ last.owner \in Handles \ {h}
          => /\ file_is_opened'
             /\ pos' = pos
             /\ event' = event]_vars

\* C28: a generator made by move_to_next_event or move_to_next_mc_event while
\* a stream was open yields no event once that stream has been closed,
\* whether or not a stream has been opened again since.
C28_NoEventOfLaterSession ==
    (last.op = "next" /\ last.gens[last.it] = "past") => last.exc # "none"

\* C29: from every state fill_next_event returns the id e exactly when the
\* first next() of a move_to_next_event() generator made in that state would
\* yield e, and raises exactly when that generator would yield nothing; the
\* same for fill_next_mc_event and move_to_next_mc_event.
C29_FillAgreesWithOneStep ==
    [][\A h \in Handles :
          /\ fill_next_event(h) => last'.val = first_next("data", h, 0)
          /\ fill_next_mc_event(h) => last'.val = first_next("mc", h, 0)]_vars

\* The blocks of one kind in the stream, as positions in it, in order.
RECURSIVE KindAt(_, _)
KindAt(mode, p) ==
    IF p > Len(file) THEN <<>>
    ELSE (IF file[p].type = mode THEN <<p>> ELSE <<>>) \o KindAt(mode, p + 1)

\* A generator with limit N > 0 that had the stream to itself, with at least
\* N events of its kind left when it was made, has just been run to its end.
Exhausted(it) ==
    /\ last.op = "next"
    /\ last.it = it
    /\ last.exc = "StopIteration"
    /\ iters[it].alone
    /\ iters[it].limit > 0
    /\ iters[it].avail >= iters[it].limit

\* C30: a generator with limit N > 0, run to exhaustion on a stream that had
\* at least N events of its kind left, has advanced the stream once for each
\* of its N yields and not once more: every yielding next() calls the library
\* once, the next() that ends it calls it not at all, the stream stands right
\* after the block yielded last, and the next advance returns the event that
\* follows it (or the end of the stream when none does).
C30_NoReadAhead ==
    /\ (last.op = "next" /\ last.exc = "none") => last.libcalls = 1
    /\ \A it \in Iters :
          Exhausted(it) =>
            LET g == iters[it]
                at == KindAt(g.mode, 1)
                k == Len(at) - g.avail + g.limit
                after == AdvanceOf(g.mode)
            IN  /\ last.libcalls = 0
                /\ g.yielded = g.limit
                /\ file[at[k]].id = g.result
                /\ pos = at[k] + 1
                /\ IF k < Len(at)
                   THEN after.rc # -1 /\ after.id = file[at[k + 1]].id
                   ELSE after.rc = -1

C30_Witness ==
    /\ Exhausted(1)
    /\ iters[1].mode = "data"
    /\ iters[1].limit = 1
    /\ iters[1].avail = 2
    /\ iters[1].result = 100
    /\ pos = 3
    /\ AdvanceOf("data").id = 200

====
